---- MODULE Spec2Model ----
(***************************************************************************)
(* reqwest-metrics: a reqwest-middleware Middleware that records three     *)
(* histograms (duration, request body size, response body size) per call,  *)
(* tagged with a label set derived from the request and from the result    *)
(* of the delegated call.  Model of src/src/lib.rs.                        *)
(***************************************************************************)
EXTENDS Integers, Sequences, FiniteSets, Bags, TLC

(* ------------------------------ bounds --------------------------------- *)
\* number of calls that may be in flight at once through one middleware
MaxCalls == 2
\* number of setter calls made on one builder
MaxSetterCalls == 2

Calls == 1..MaxCalls

(* --------------------------- Option<T> --------------------------------- *)
None == <<>>
Some(x) == <<x>>
IsSome(o) == o /= <<>>
Unwrap(o) == o[1]

(* ------------------------ constants of lib.rs -------------------------- *)
HTTP_CLIENT_REQUEST_DURATION == "http.client.request.duration"
HTTP_CLIENT_REQUEST_BODY_SIZE == "http.client.request.body.size"
HTTP_CLIENT_RESPONSE_BODY_SIZE == "http.client.response.body.size"
HTTP_REQUEST_METHOD == "http.request.method"
SERVER_ADDRESS == "server.address"
SERVER_PORT == "server.port"
ERROR_TYPE == "error.type"
HTTP_RESPONSE_STATUS_CODE == "http.response.status_code"
NETWORK_PROTOCOL_NAME == "network.protocol.name"
NETWORK_PROTOCOL_VERSION == "network.protocol.version"
URL_SCHEME == "url.scheme"
\* name of the opt-in uri label (not in lib.rs; used by examples/enable_uri.rs)
URI == "uri"

HistogramNames ==
    { HTTP_CLIENT_REQUEST_DURATION,
      HTTP_CLIENT_REQUEST_BODY_SIZE,
      HTTP_CLIENT_RESPONSE_BODY_SIZE }

\* Duration::as_millis: whole milliseconds of a duration held in nanoseconds
NanosPerMilli == 1000000
\* `as f64 / 1000.0`
MillisPerSecond == 1000

(* --------------------------- LabelNames -------------------------------- *)
\* the fields of struct LabelNames
Fields ==
    { "http_request_method", "server_address", "server_port", "error_type",
      "http_response_status", "network_protocol_name",
      "network_protocol_version", "url_scheme" }

\* impl Default for LabelNames
LabelNamesDefault ==
    [ http_request_method      |-> HTTP_REQUEST_METHOD,
      server_address           |-> SERVER_ADDRESS,
      server_port              |-> SERVER_PORT,
      error_type               |-> ERROR_TYPE,
      http_response_status     |-> HTTP_RESPONSE_STATUS_CODE,
      network_protocol_name    |-> NETWORK_PROTOCOL_NAME,
      network_protocol_version |-> NETWORK_PROTOCOL_VERSION,
      url_scheme               |-> URL_SCHEME ]

\* the setter methods generated by label_setters!
Setters ==
    { "http_request_method_label", "server_address_label", "server_port_label",
      "error_type_label", "http_response_status_label",
      "network_protocol_name_label", "network_protocol_version_label",
      "url_scheme_label" }

\* the field each generated setter assigns (second identifier of each
\* label_setters! entry)
SetterField(m) ==
    CASE m = "http_request_method_label"      -> "http_request_method"
      [] m = "server_address_label"           -> "server_address"
      [] m = "server_port_label"              -> "server_port"
      [] m = "error_type_label"               -> "error_type"
      [] m = "http_response_status_label"     -> "http_response_status"
      [] m = "network_protocol_name_label"    -> "network_protocol_name"
      [] m = "network_protocol_version_label" -> "network_protocol_name"
      [] m = "url_scheme_label"               -> "url_scheme"

\* the semantic key a setter is documented to rename (its doc comment and name)
SetterKey(m) ==
    CASE m = "http_request_method_label"      -> "http_request_method"
      [] m = "server_address_label"           -> "server_address"
      [] m = "server_port_label"              -> "server_port"
      [] m = "error_type_label"               -> "error_type"
      [] m = "http_response_status_label"     -> "http_response_status"
      [] m = "network_protocol_name_label"    -> "network_protocol_name"
      [] m = "network_protocol_version_label" -> "network_protocol_version"
      [] m = "url_scheme_label"               -> "url_scheme"

\* MetricsMiddlewareBuilder::new
BuilderNew == [ label_names |-> LabelNamesDefault, uri |-> FALSE ]

\* the three describe_histogram! calls of new_inner
Descriptors ==
    { [ name |-> HTTP_CLIENT_REQUEST_DURATION, unit |-> "Seconds",
        description |-> "Duration of HTTP client requests." ],
      [ name |-> HTTP_CLIENT_REQUEST_BODY_SIZE, unit |-> "Bytes",
        description |-> "Size of HTTP client request bodies." ],
      [ name |-> HTTP_CLIENT_RESPONSE_BODY_SIZE, unit |-> "Bytes",
        description |-> "Size of HTTP client response bodies." ] }

\* MetricsMiddleware::new_inner: the middleware value
NewInner(label_names, uri) == [ label_names |-> label_names, uri |-> uri ]

\* MetricsMiddleware::new
MetricsMiddlewareNew == NewInner(LabelNamesDefault, FALSE)

(* ------------------------ decimal formatting --------------------------- *)
Digit(d) ==
    CASE d = 0 -> "0" [] d = 1 -> "1" [] d = 2 -> "2" [] d = 3 -> "3"
      [] d = 4 -> "4" [] d = 5 -> "5" [] d = 6 -> "6" [] d = 7 -> "7"
      [] d = 8 -> "8" [] d = 9 -> "9"

\* u16::to_string: decimal digits, no leading zeros
RECURSIVE U16ToString(_)
U16ToString(n) ==
    IF n < 10 THEN Digit(n) ELSE U16ToString(n \div 10) \o Digit(n % 10)

\* http::StatusCode::as_str: always the three digits of the code
StatusAsStr(s) ==
    Digit(s \div 100) \o Digit((s \div 10) % 10) \o Digit(s % 10)

\* StatusCode::is_client_error / is_server_error
IsClientError(s) == 400 <= s /\ s < 500
IsServerError(s) == 500 <= s /\ s < 600

(* ------------------------ request classifier --------------------------- *)
WellKnownMethods ==
    { "GET", "POST", "PUT", "DELETE", "HEAD", "OPTIONS", "CONNECT", "PATCH",
      "TRACE" }

\* fn http_request_method
http_request_method(req) ==
    IF req.method \in WellKnownMethods
    THEN CHOOSE m \in WellKnownMethods : m = req.method
    ELSE req.method

\* fn url_scheme
url_scheme(req) ==
    CASE req.url.scheme = "http"  -> "http"
      [] req.url.scheme = "https" -> "https"
      [] OTHER                    -> req.url.scheme

\* fn server_address: req.url().host().map(|h| h.to_string())
server_address(req) == req.url.host

\* url::Url::port_or_known_default, as called by fn server_port: the explicit
\* port, else the default port the url crate knows for the scheme
KnownDefaultPort(scheme) ==
    CASE scheme \in { "http", "ws" }   -> Some(80)
      [] scheme \in { "https", "wss" } -> Some(443)
      [] scheme = "ftp"                -> Some(21)
      [] OTHER                         -> None

\* mutant: only the explicit port
server_port_explicit_only(req) == req.url.port

\* fn server_port
server_port(req) ==
    IF IsSome(req.url.port) THEN req.url.port
    ELSE KnownDefaultPort(req.url.scheme)

\* fn network_protocol_version (not wasm32)
network_protocol_version(req) ==
    CASE req.version = "HTTP_09" -> Some("0.9")
      [] req.version = "HTTP_10" -> Some("1.0")
      [] req.version = "HTTP_11" -> Some("1.1")
      [] req.version = "HTTP_2"  -> Some("2")
      [] req.version = "HTTP_3"  -> Some("3")
      [] OTHER                   -> None

\* req.body().and_then(|b| b.as_bytes()).map(|b| b.len()).unwrap_or(0)
request_body_size(req) ==
    IF IsSome(req.body) /\ IsSome(Unwrap(req.body).bytes)
    THEN Unwrap(Unwrap(req.body).bytes)
    ELSE 0

(* ------------------------ outcome classifier --------------------------- *)
\* fn http_response_status
http_response_status(res) ==
    IF res.ok THEN Some(U16ToString(res.status)) ELSE None

\* mutant: only 4xx responses are errors
error_type_client_only(res) ==
    IF res.ok
    THEN IF IsClientError(res.status) THEN Some(StatusAsStr(res.status)) ELSE None
    ELSE Some(res.desc)

\* mutant: a failure of the transport carries no error type
error_type_no_transport(res) ==
    IF res.ok
    THEN IF IsClientError(res.status) \/ IsServerError(res.status)
         THEN Some(StatusAsStr(res.status)) ELSE None
    ELSE IF res.kind = "Middleware" THEN Some(res.desc) ELSE None

\* fn error_type; format!("{err}") is the error's Display text
error_type(res) ==
    CASE res.ok /\ (IsClientError(res.status) \/ IsServerError(res.status))
           -> Some(StatusAsStr(res.status))
      [] ~res.ok /\ res.kind = "Middleware" -> Some(res.desc)
      [] ~res.ok /\ res.kind = "Reqwest"    -> Some(res.desc)
      [] OTHER                              -> None

\* res.as_ref().ok().and_then(|res| res.content_length()).unwrap_or(0)
response_body_size(res) ==
    IF res.ok /\ IsSome(res.content_length) THEN Unwrap(res.content_length)
    ELSE 0

\* mutant: no "?" between path and query
UriValueNoSeparator(req) ==
    IF IsSome(req.url.query) THEN req.url.path \o Unwrap(req.url.query)
    ELSE req.url.path

\* uri value: the path, then "?" and the query when a query is present
UriValue(req) ==
    IF IsSome(req.url.query) THEN req.url.path \o "?" \o Unwrap(req.url.query)
    ELSE req.url.path

\* the uri label, emitted only by a middleware built with enable_uri()
UriLabel(this, req) ==
    IF this.uri THEN << <<URI, UriValue(req)>> >> ELSE << >>

(* ------------------------- observed values ----------------------------- *)
\* an f64 observation, kept exact as a fraction num/den
Value(num, den) == [ num |-> num, den |-> den ]

\* duration.as_millis() as f64 / 1000.0
DurationSeconds(nanos) == Value(nanos \div NanosPerMilli, MillisPerSecond)

(* --------------------------- label set --------------------------------- *)
OptLabel(name, o) == IF IsSome(o) THEN << <<name, Unwrap(o)>> >> ELSE << >>

\* the `labels` vector of handle, from the values captured before the
\* delegation (loc) and the delegated result (res)
Labels(this, loc, res) ==
    << <<this.label_names.http_request_method, loc.http_request_method>>,
       <<this.label_names.url_scheme, loc.url_scheme>>,
       <<this.label_names.network_protocol_name, "http">> >>
    \o OptLabel(this.label_names.server_address, loc.server_address)
    \o OptLabel(this.label_names.server_port,
                IF IsSome(loc.server_port)
                THEN Some(U16ToString(Unwrap(loc.server_port))) ELSE None)
    \o OptLabel(this.label_names.network_protocol_version,
                loc.network_protocol_version)
    \o OptLabel(this.label_names.http_response_status, http_response_status(res))
    \o OptLabel(this.label_names.error_type, error_type(res))
    \o loc.uri

(* ------------------------------ inputs --------------------------------- *)
Url(scheme, host, port, path, query) ==
    [ scheme |-> scheme, host |-> host, port |-> port, path |-> path,
      query |-> query ]

Request(method, url, version, body) ==
    [ method |-> method, url |-> url, version |-> version, body |-> body ]

\* Result<Response>: Ok(response) with its status and declared content length
Ok(status, content_length) ==
    [ ok |-> TRUE, status |-> status, content_length |-> content_length,
      kind |-> "", desc |-> "" ]

\* Result<Response>: Err(Error::Middleware(_)) or Err(Error::Reqwest(_)),
\* with the text its Display prints
Err(kind, desc) ==
    [ ok |-> FALSE, status |-> 0, content_length |-> None,
      kind |-> kind, desc |-> desc ]

\* the request of the integration tests, and a second one with a body, a
\* query and no explicit port
ReqHello ==
    Request("GET", Url("http", Some("localhost"), Some(8080), "/hello", None),
            "HTTP_11", None)
ReqPost ==
    Request("POST", Url("https", Some("example.com"), None, "/hello", Some("x=1")),
            "HTTP_2", Some([ bytes |-> Some(3) ]))

Requests == { ReqHello, ReqPost }
Results == { Ok(200, Some(5)), Err("Reqwest", "connection refused") }
BuilderResults == { Ok(404, None), Err("Middleware", "rejected") }
\* elapsed times of the delegation, in nanoseconds
ElapsedTimes == { 2500000 }

\* values of the caller's Extensions; every call starts with the first, the
\* next handler may leave the second
ExtInitial == "ext0"
ExtValues == { "ext0", "ext1" }

\* names passed to the builder's setters
LabelChoices == { "custom_a", "custom_b" }

(* ---------------- inputs of the single-call specification -------------- *)
WideUrls ==
    { Url(s, h, p, "/hello", None) :
        s \in { "http", "https", "ws", "wss", "ftp", "file" },
        h \in { None, Some("example.com") },
        p \in { None, Some(8080), Some(65535) } }
    \cup { Url("http", Some("example.com"), None, "/hello", q) :
             q \in { Some("x=1"), Some("") } }

WideRequests ==
    { Request("GET", u, "HTTP_11", None) : u \in WideUrls }
    \cup { Request(m, ReqHello.url, v, None) :
             m \in { "DELETE", "FOO" }, v \in { "HTTP_09", "HTTP_10", "HTTP_3" } }
    \cup { Request("PUT", ReqHello.url, "HTTP_2", b) :
             b \in { Some([ bytes |-> Some(0) ]), Some([ bytes |-> Some(7) ]),
                     Some([ bytes |-> None ]) } }

WideStatuses == { 100, 199, 200, 204, 301, 399, 400, 404, 499, 500, 503, 599, 600, 999 }

WideResults ==
    { Ok(s, l) : s \in WideStatuses, l \in { None, Some(0), Some(12) } }
    \cup { Err(k, d) : k \in { "Middleware", "Reqwest" },
                       d \in { "connection refused", "operation timed out" } }

WideElapsedTimes == { 0, 1, 999999, 1000000, 1500000, 2000000 }

(* ------------------------------ state ---------------------------------- *)
VARIABLES
    builder,    \* the MetricsMiddlewareBuilder
    setCalls,   \* number of setter calls made on the builder
    called,     \* per setter, the argument of its last call before build()
    mw,         \* the built MetricsMiddleware (None before construction)
    described,  \* the histogram descriptors registered with the recorder
    pc,         \* per call, where handle() stands
    arg,        \* per call, the request handle() was called with
    ext,        \* per call, the caller's Extensions
    local,      \* per call, the local variables of handle()
    passed,     \* per call, the request and Extensions handed to next.run
    replied,    \* per call, the result and Extensions next.run came back with
    out,        \* per call, the result handle() returned
    hist,       \* per histogram, the bag of observations recorded
    log         \* per call, the observations it recorded, in order

vars ==
    << builder, setCalls, called, mw, described, pc, arg, ext, local, passed,
       replied, out, hist, log >>

builderVars == << builder, setCalls, called, mw, described >>
callVars == << pc, arg, ext, local, passed, replied, out, hist, log >>

\* the locals of handle() before anything is assigned
NoLocals ==
    [ http_request_method |-> "", url_scheme |-> "", server_address |-> None,
      server_port |-> None, network_protocol_version |-> None,
      request_body_size |-> 0, uri |-> << >>, start |-> FALSE,
      res |-> None, duration |-> None, labels |-> None ]

InitCalls ==
    /\ pc = [ c \in Calls |-> "idle" ]
    /\ arg = [ c \in Calls |-> None ]
    /\ ext = [ c \in Calls |-> ExtInitial ]
    /\ local = [ c \in Calls |-> NoLocals ]
    /\ passed = [ c \in Calls |-> None ]
    /\ replied = [ c \in Calls |-> None ]
    /\ out = [ c \in Calls |-> None ]
    /\ hist = [ h \in HistogramNames |-> EmptyBag ]
    /\ log = [ c \in Calls |-> << >> ]

\* a client built with MetricsMiddleware::new()
Init ==
    /\ builder = BuilderNew
    /\ setCalls = 0
    /\ called = [ m \in Setters |-> None ]
    /\ mw = Some(MetricsMiddlewareNew)
    /\ described = Descriptors
    /\ InitCalls

\* a fresh MetricsMiddlewareBuilder, nothing built yet
InitBuilder ==
    /\ builder = BuilderNew
    /\ setCalls = 0
    /\ called = [ m \in Setters |-> None ]
    /\ mw = None
    /\ described = {}
    /\ InitCalls

(* ----------------------------- builder --------------------------------- *)
\* one of the setters generated by label_setters!, called on the builder
\* expression that ends in build()
SetLabel(m, label) ==
    /\ mw = None
    /\ setCalls < MaxSetterCalls
    /\ builder' = [ builder EXCEPT !.label_names[SetterField(m)] = label ]
    /\ setCalls' = setCalls + 1
    /\ called' = [ called EXCEPT ![m] = Some(label) ]
    /\ UNCHANGED << mw, described >>
    /\ UNCHANGED callVars

\* enable_uri(): opts in to the uri label
EnableUri ==
    /\ mw = None
    /\ ~builder.uri
    /\ builder' = [ builder EXCEPT !.uri = TRUE ]
    /\ UNCHANGED << setCalls, called, mw, described >>
    /\ UNCHANGED callVars

\* MetricsMiddlewareBuilder::build, through new_inner
Build ==
    /\ mw = None
    /\ mw' = Some(NewInner(builder.label_names, builder.uri))
    /\ described' = described \cup Descriptors
    /\ UNCHANGED << builder, setCalls, called >>
    /\ UNCHANGED callVars

(* ------------------------ MetricsMiddleware::handle -------------------- *)
This == Unwrap(mw)

\* what one histogram!(name, &labels).record(value) hands to the recorder
Observation(labels, value) == [ labels |-> labels, value |-> value ]

\* mutant: an observation equal to one already held is not recorded again
RecordDeduplicated(c, h, value) ==
    LET o == Observation(Unwrap(local[c].labels), value) IN
    /\ hist' = [ hist EXCEPT ![h] = IF BagIn(o, @) THEN @ ELSE @ (+) SetToBag({ o }) ]
    /\ log' = [ log EXCEPT ![c] = Append(@, [ hist |-> h, obs |-> o ]) ]

\* histogram!(h, &labels).record(value) by call c
Record(c, h, value) ==
    LET o == Observation(Unwrap(local[c].labels), value) IN
    /\ hist' = [ hist EXCEPT ![h] = @ (+) SetToBag({ o }) ]
    /\ log' = [ log EXCEPT ![c] = Append(@, [ hist |-> h, obs |-> o ]) ]

\* the values read from the request and the timer start, before next.run
CaptureLocals(this, req) ==
    [ NoLocals EXCEPT
        !.http_request_method = http_request_method(req),
        !.url_scheme = url_scheme(req),
        !.server_address = server_address(req),
        !.server_port = server_port(req),
        !.network_protocol_version = network_protocol_version(req),
        !.request_body_size = request_body_size(req),
        !.uri = UriLabel(this, req),
        !.start = TRUE ]

\* handle() is called with req and runs up to `let start = Instant::now()`
Capture(c, req) ==
    /\ IsSome(mw)
    /\ pc[c] = "idle"
    /\ arg' = [ arg EXCEPT ![c] = Some(req) ]
    /\ local' = [ local EXCEPT ![c] = CaptureLocals(This, req) ]
    /\ pc' = [ pc EXCEPT ![c] = "captured" ]
    /\ UNCHANGED << ext, passed, replied, out, hist, log >>
    /\ UNCHANGED builderVars

\* next.run(req, extensions): the request and the context go to the next
\* handler, and handle() is suspended on the await
Delegate(c) ==
    /\ pc[c] = "captured"
    /\ passed' = [ passed EXCEPT ![c] = Some([ req |-> Unwrap(arg[c]), ext |-> ext[c] ]) ]
    /\ pc' = [ pc EXCEPT ![c] = "awaiting" ]
    /\ UNCHANGED << arg, ext, local, replied, out, hist, log >>
    /\ UNCHANGED builderVars

\* the await completes with res after `elapsed` nanoseconds, the next handler
\* having left e in the Extensions; handle() reads the timer and assembles
\* the labels
DelegationReturns(c, res, elapsed, e) ==
    /\ pc[c] = "awaiting"
    /\ ext' = [ ext EXCEPT ![c] = e ]
    /\ local' = [ local EXCEPT ![c] =
                    [ local[c] EXCEPT
                        !.res = Some(res),
                        !.duration = Some(elapsed),
                        !.labels = Some(Labels(This, local[c], res)) ] ]
    /\ pc' = [ pc EXCEPT ![c] = "record_duration" ]
    /\ UNCHANGED << arg, passed, out, hist, log >>
    /\ replied' = [ replied EXCEPT ![c] = Some([ res |-> res, ext |-> e ]) ]
    /\ UNCHANGED builderVars

\* mutant: the future can also be dropped between two records
CancelBetweenRecords(c) ==
    /\ pc[c] \in { "awaiting", "record_request_body_size" }
    /\ pc' = [ pc EXCEPT ![c] = "cancelled" ]
    /\ UNCHANGED << arg, ext, local, passed, replied, out, hist, log >>
    /\ UNCHANGED builderVars

\* the caller drops the future while it is suspended on the await
Cancel(c) ==
    /\ pc[c] = "awaiting"
    /\ pc' = [ pc EXCEPT ![c] = "cancelled" ]
    /\ UNCHANGED << arg, ext, local, passed, replied, out, hist, log >>
    /\ UNCHANGED builderVars

\* histogram!(HTTP_CLIENT_REQUEST_DURATION, &labels).record(..)
RecordDuration(c) ==
    /\ pc[c] = "record_duration"
    /\ Record(c, HTTP_CLIENT_REQUEST_DURATION,
              DurationSeconds(Unwrap(local[c].duration)))
    /\ pc' = [ pc EXCEPT ![c] = "record_request_body_size" ]
    /\ UNCHANGED << arg, ext, local, passed, replied, out >>
    /\ UNCHANGED builderVars

\* histogram!(HTTP_CLIENT_REQUEST_BODY_SIZE, &labels).record(..)
RecordRequestBodySize(c) ==
    /\ pc[c] = "record_request_body_size"
    /\ Record(c, HTTP_CLIENT_REQUEST_BODY_SIZE,
              Value(local[c].request_body_size, 1))
    /\ pc' = [ pc EXCEPT ![c] = "record_response_body_size" ]
    /\ UNCHANGED << arg, ext, local, passed, replied, out >>
    /\ UNCHANGED builderVars

\* histogram!(HTTP_CLIENT_RESPONSE_BODY_SIZE, &labels).record(..)
RecordResponseBodySize(c) ==
    /\ pc[c] = "record_response_body_size"
    /\ Record(c, HTTP_CLIENT_RESPONSE_BODY_SIZE,
              Value(response_body_size(Unwrap(local[c].res)), 1))
    /\ pc' = [ pc EXCEPT ![c] = "return" ]
    /\ UNCHANGED << arg, ext, local, passed, replied, out >>
    /\ UNCHANGED builderVars

\* mutant: the delegated failure is wrapped into a middleware error
HandleResultWrapped(res) ==
    IF res.ok THEN res ELSE Err("Middleware", "metrics: " \o res.desc)

\* the tail expression `res` of handle()
HandleResult(res) == res

\* mutant: handle() returns as soon as the request body size is recorded
ReturnEarly(c) ==
    /\ pc[c] \in { "record_response_body_size", "return" }
    /\ out' = [ out EXCEPT ![c] = Some(HandleResult(Unwrap(local[c].res))) ]
    /\ pc' = [ pc EXCEPT ![c] = "returned" ]
    /\ UNCHANGED << arg, ext, local, passed, replied, hist, log >>
    /\ UNCHANGED builderVars

\* handle() returns res to the caller
Return(c) ==
    /\ pc[c] = "return"
    /\ out' = [ out EXCEPT ![c] = Some(HandleResult(Unwrap(local[c].res))) ]
    /\ pc' = [ pc EXCEPT ![c] = "returned" ]
    /\ UNCHANGED << arg, ext, local, passed, replied, hist, log >>
    /\ UNCHANGED builderVars

(* --------------------------- specifications ---------------------------- *)
\* concurrent calls through a middleware built with MetricsMiddleware::new()
Next ==
    \E c \in Calls :
        \/ \E req \in Requests : Capture(c, req)
        \/ Delegate(c)
        \/ \E res \in Results, t \in ElapsedTimes, e \in ExtValues :
               DelegationReturns(c, res, t, e)
        \/ Cancel(c)
        \/ RecordDuration(c)
        \/ RecordRequestBodySize(c)
        \/ RecordResponseBodySize(c)
        \/ Return(c)

Spec == Init /\ [][Next]_vars

\* one call through the default middleware, over the wide input sets
NextWide ==
    \/ \E req \in WideRequests : Capture(1, req)
    \/ Delegate(1)
    \/ \E res \in WideResults, t \in WideElapsedTimes :
           DelegationReturns(1, res, t, ExtInitial)
    \/ Cancel(1)
    \/ RecordDuration(1)
    \/ RecordRequestBodySize(1)
    \/ RecordResponseBodySize(1)
    \/ Return(1)

SpecWide == Init /\ [][NextWide]_vars

\* a builder expression ending in build(), then one call through the result
NextBuilder ==
    \/ \E m \in Setters, label \in LabelChoices : SetLabel(m, label)
    \/ EnableUri
    \/ Build
    \/ \E req \in Requests : Capture(1, req)
    \/ Delegate(1)
    \/ \E res \in BuilderResults, t \in ElapsedTimes :
           DelegationReturns(1, res, t, ExtInitial)
    \/ Cancel(1)
    \/ RecordDuration(1)
    \/ RecordRequestBodySize(1)
    \/ RecordResponseBodySize(1)
    \/ Return(1)

SpecBuilder == InitBuilder /\ [][NextBuilder]_vars

(* ------------------------------ properties ----------------------------- *)
Range(seq) == { seq[i] : i \in DOMAIN seq }

\* the observations call c has recorded on histogram h
Logged(c, h) == { i \in DOMAIN log[c] : log[c][i].hist = h }

\* the calls that recorded observation o on histogram h
Recorders(h, o) ==
    { c \in Calls : \E i \in DOMAIN log[c] : log[c][i] = [ hist |-> h, obs |-> o ] }

AllLogged(h) == UNION { { log[c][i].obs : i \in Logged(c, h) } : c \in Calls }

\* the states of a call in which handle() is not running: not yet called,
\* suspended on the await, dropped, or returned
AtRest == { "idle", "awaiting", "cancelled", "returned" }

\* C2: handle() hands next.run the request and the Extensions it was called
\* with, returns exactly the result next.run produced, and leaves the
\* Extensions as next.run left them.
C2_DelegatedResultUnchanged ==
    \A c \in Calls :
        /\ IsSome(passed[c]) =>
               passed[c] = Some([ req |-> Unwrap(arg[c]), ext |-> ExtInitial ])
        /\ IsSome(replied[c]) => ext[c] = Unwrap(replied[c]).ext
        /\ ~IsSome(replied[c]) => ext[c] = ExtInitial
        /\ pc[c] = "returned" => out[c] = Some(Unwrap(replied[c]).res)
        /\ IsSome(out[c]) => pc[c] = "returned"

\* C2 witness: one call returned a failure and another a success, the next
\* handler having changed the Extensions of one of them
C2_Witness ==
    \E c, d \in Calls :
        /\ pc[c] = "returned" /\ ~Unwrap(out[c]).ok /\ ext[c] /= ExtInitial
        /\ pc[d] = "returned" /\ Unwrap(out[d]).ok

\* C3: a call that returned has recorded exactly one observation on each of
\* the three histograms, all with the same labels, and every histogram holds
\* one copy of an observation per call that recorded it, so n returned calls
\* leave n observations on each histogram.
C3_OneObservationPerHistogram ==
    /\ \A c \in Calls :
           /\ \A h \in HistogramNames : Cardinality(Logged(c, h)) <= 1
           /\ pc[c] = "returned" =>
                  /\ Len(log[c]) = 3
                  /\ \A h \in HistogramNames : Cardinality(Logged(c, h)) = 1
                  /\ \A i, j \in DOMAIN log[c] :
                         log[c][i].obs.labels = log[c][j].obs.labels
    /\ \A h \in HistogramNames :
           /\ BagToSet(hist[h]) = AllLogged(h)
           /\ \A o \in AllLogged(h) :
                  CopiesIn(o, hist[h]) = Cardinality(Recorders(h, o))
           /\ (\A c \in Calls : pc[c] \in AtRest) =>
                  BagCardinality(hist[h]) =
                      Cardinality({ c \in Calls : pc[c] = "returned" })

\* C3 witness: two identical calls have returned and each histogram holds two
\* copies of the same observation
C3_Witness ==
    \E c, d \in Calls :
        /\ c /= d
        /\ pc[c] = "returned" /\ pc[d] = "returned"
        /\ log[c] = log[d]
        /\ \A h \in HistogramNames :
               \E o \in BagToSet(hist[h]) : CopiesIn(o, hist[h]) = 2

\* C4 as claimed: a call dropped while it awaits the delegation has recorded
\* nothing, and whenever some call has returned to its caller, every call,
\* itself or another, has recorded none or all three of its observations.
C4_NeverPartialForAnyCall ==
    \A c \in Calls :
        /\ pc[c] = "cancelled" => log[c] = << >>
        /\ \A d \in Calls : pc[d] = "returned" => Len(log[c]) \in { 0, 3 }

\* C4 amended: a call dropped while it awaits the delegation has recorded
\* nothing, and whenever handle() is not running for a call (not called,
\* suspended on the await, dropped or returned) that call has recorded none
\* or all three of its observations.
C4_CancelledRecordsNothing ==
    \A c \in Calls :
        /\ pc[c] = "cancelled" => log[c] = << >>
        /\ pc[c] \in AtRest => Len(log[c]) \in { 0, 3 }

\* C4 witness: one call was dropped while another, started before the drop,
\* has recorded all three observations
C4_Witness ==
    \E c, d \in Calls :
        /\ pc[c] = "cancelled" /\ IsSome(passed[c])
        /\ pc[d] = "returned" /\ Len(log[d]) = 3

\* C7: the request facts and the timer start are taken before the request is
\* handed to next.run, nothing is recorded before next.run has come back,
\* and all three observations are on the histograms when handle() returns.
C7_StepOrder ==
    \A c \in Calls :
        /\ pc[c] = "captured" => local[c].start /\ ~IsSome(passed[c])
        /\ IsSome(passed[c]) =>
               /\ local[c].start
               /\ [ local[c] EXCEPT !.res = None, !.duration = None, !.labels = None ]
                      = CaptureLocals(This, Unwrap(passed[c]).req)
        /\ IsSome(replied[c]) => IsSome(passed[c])
        /\ log[c] /= << >> => IsSome(replied[c])
        /\ IsSome(out[c]) =>
               /\ [ i \in DOMAIN log[c] |-> log[c][i].hist ]
                      = << HTTP_CLIENT_REQUEST_DURATION,
                           HTTP_CLIENT_REQUEST_BODY_SIZE,
                           HTTP_CLIENT_RESPONSE_BODY_SIZE >>
               /\ \A i \in DOMAIN log[c] : BagIn(log[c][i].obs, hist[log[c][i].hist])

\* C7 witness: a call has returned while another is still suspended on the
\* await with nothing recorded
C7_Witness ==
    \E c, d \in Calls :
        /\ IsSome(out[c]) /\ Len(log[c]) = 3
        /\ pc[d] = "awaiting" /\ log[d] = << >>

\* the values a label vector carries under one name
LabelValues(labels, name) ==
    { labels[i][2] : i \in { j \in DOMAIN labels : labels[j][1] = name } }

\* the label vectors call c has handed to the recorder
Emitted(c) == { log[c][i].obs.labels : i \in DOMAIN log[c] }

\* decimal numerals of the status codes and ports the inputs use
Decimal(n) ==
    CASE n = 21 -> "21" [] n = 80 -> "80" [] n = 100 -> "100" [] n = 199 -> "199"
      [] n = 200 -> "200" [] n = 204 -> "204" [] n = 301 -> "301"
      [] n = 399 -> "399" [] n = 400 -> "400" [] n = 404 -> "404"
      [] n = 443 -> "443" [] n = 499 -> "499" [] n = 500 -> "500"
      [] n = 503 -> "503" [] n = 599 -> "599" [] n = 600 -> "600"
      [] n = 999 -> "999" [] n = 8080 -> "8080" [] n = 65535 -> "65535"

\* C5: for a call that obtained a response with status s, the status label
\* is the decimal string of s, and the error type label is that same string
\* exactly when 400 <= s <= 599 and is absent otherwise.
C5_StatusAndErrorType ==
    \A c \in Calls : \A labels \in Emitted(c) :
        LET res == Unwrap(replied[c]).res IN
        res.ok =>
            /\ LabelValues(labels, HTTP_RESPONSE_STATUS_CODE) = { Decimal(res.status) }
            /\ LabelValues(labels, ERROR_TYPE) =
                   IF 400 <= res.status /\ res.status <= 599
                   THEN { Decimal(res.status) } ELSE { }

\* C5 witness: a call answered 503 has recorded its observations with status
\* and error type "503"
C5_Witness ==
    \E c \in Calls :
        /\ pc[c] = "returned" /\ Unwrap(out[c]).ok /\ Unwrap(out[c]).status = 503
        /\ \A labels \in Emitted(c) :
               /\ <<HTTP_RESPONSE_STATUS_CODE, "503">> \in Range(labels)
               /\ <<ERROR_TYPE, "503">> \in Range(labels)

\* C6 as claimed: for a call that failed before any response, the labels
\* carry the method and the scheme, neither the status nor the server
\* address, and the failure's description as error type.
C6_FailureLabelsNoHost ==
    \A c \in Calls : \A labels \in Emitted(c) :
        LET res == Unwrap(replied[c]).res
            req == Unwrap(arg[c]) IN
        ~res.ok =>
            /\ LabelValues(labels, HTTP_REQUEST_METHOD) = { req.method }
            /\ LabelValues(labels, URL_SCHEME) = { req.url.scheme }
            /\ LabelValues(labels, HTTP_RESPONSE_STATUS_CODE) = { }
            /\ LabelValues(labels, SERVER_ADDRESS) = { }
            /\ LabelValues(labels, ERROR_TYPE) = { res.desc }

\* C6 amended: for a call that failed before any response, the labels carry
\* the method and the scheme, no status, the failure's description as error
\* type, and the server address exactly when the request URL has a host.
C6_FailureLabels ==
    \A c \in Calls : \A labels \in Emitted(c) :
        LET res == Unwrap(replied[c]).res
            req == Unwrap(arg[c]) IN
        ~res.ok =>
            /\ LabelValues(labels, HTTP_REQUEST_METHOD) = { req.method }
            /\ LabelValues(labels, URL_SCHEME) = { req.url.scheme }
            /\ LabelValues(labels, HTTP_RESPONSE_STATUS_CODE) = { }
            /\ LabelValues(labels, SERVER_ADDRESS) =
                   IF IsSome(req.url.host) THEN { Unwrap(req.url.host) } ELSE { }
            /\ LabelValues(labels, ERROR_TYPE) = { res.desc }

\* C6 witness: a call to a URL with a host failed in the transport and has
\* recorded its observations with the host and the failure text
C6_Witness ==
    \E c \in Calls :
        /\ pc[c] = "returned" /\ ~Unwrap(out[c]).ok
        /\ Unwrap(out[c]).kind = "Reqwest"
        /\ \A labels \in Emitted(c) :
               /\ <<SERVER_ADDRESS, "example.com">> \in Range(labels)
               /\ <<ERROR_TYPE, "connection refused">> \in Range(labels)

\* C8 as claimed: the duration observation equals the elapsed time of the
\* delegation in seconds, and is greater than 0 whenever the elapsed time is.
C8_DurationIsElapsed ==
    \A c \in Calls : \A i \in Logged(c, HTTP_CLIENT_REQUEST_DURATION) :
        LET v == log[c][i].obs.value
            nanos == Unwrap(local[c].duration) IN
        /\ v.num * (NanosPerMilli * MillisPerSecond) = nanos * v.den
        /\ nanos > 0 => v.num > 0

\* C10 as claimed: the port label is the explicit port when the URL has one,
\* else 80 for http and 443 for https, and absent for any other scheme.
C10_PortHttpHttpsOnly ==
    \A c \in Calls : \A labels \in Emitted(c) :
        LET url == Unwrap(arg[c]).url IN
        LabelValues(labels, SERVER_PORT) =
            CASE IsSome(url.port)     -> { Decimal(Unwrap(url.port)) }
              [] url.scheme = "http"  -> { "80" }
              [] url.scheme = "https" -> { "443" }
              [] OTHER                -> { }

\* C10 amended: the port label is the explicit port when the URL has one,
\* else the default port known for the scheme (80 for http and ws, 443 for
\* https and wss, 21 for ftp), and absent for a scheme with no known default.
C10_PortOrKnownDefault ==
    \A c \in Calls : \A labels \in Emitted(c) :
        LET url == Unwrap(arg[c]).url IN
        LabelValues(labels, SERVER_PORT) =
            CASE IsSome(url.port)                 -> { Decimal(Unwrap(url.port)) }
              [] url.scheme \in { "http", "ws" }   -> { "80" }
              [] url.scheme \in { "https", "wss" } -> { "443" }
              [] url.scheme = "ftp"                -> { "21" }
              [] OTHER                             -> { }

\* C10 witness: a call to a ws URL without a port has recorded its
\* observations with port "80"
C10_Witness ==
    \E c \in Calls :
        /\ pc[c] = "returned"
        /\ Unwrap(arg[c]).url.scheme = "ws" /\ ~IsSome(Unwrap(arg[c]).url.port)
        /\ \A labels \in Emitted(c) : <<SERVER_PORT, "80">> \in Range(labels)

\* per semantic key, the name its own setter was last called with before
\* build(), else the default name
ExpectedNames ==
    [ k \in Fields |->
        LET m == CHOOSE m \in Setters : SetterKey(m) = k IN
        IF IsSome(called[m]) THEN Unwrap(called[m]) ELSE LabelNamesDefault[k] ]

\* C1 as claimed: the built middleware names every key as the last call of
\* that key's own setter said (else by default), and a call emits the labels
\* of the default configuration under those names, values unchanged.
C1_SetterRenamesOwnKey ==
    /\ IsSome(mw) => This.label_names = ExpectedNames
    /\ \A c \in Calls : \A labels \in Emitted(c) :
           labels = Labels([ label_names |-> ExpectedNames, uri |-> This.uri ],
                           local[c], Unwrap(local[c].res))

\* C9: a call through a middleware built without enable_uri() carries no uri
\* label; built with enable_uri() it carries the path, followed by "?" and
\* the query when the URL has one.
C9_UriLabel ==
    \A c \in Calls : \A labels \in Emitted(c) :
        LabelValues(labels, URI) =
            CASE ~builder.uri             -> { }
              [] Unwrap(arg[c]) = ReqHello -> { "/hello" }
              [] Unwrap(arg[c]) = ReqPost  -> { "/hello?x=1" }

\* C9 witness: with enable_uri(), a call to /hello?x=1 has recorded its
\* observations with that uri
C9_Witness ==
    \E c \in Calls :
        /\ pc[c] = "returned" /\ builder.uri /\ Unwrap(arg[c]) = ReqPost
        /\ \A labels \in Emitted(c) : <<URI, "/hello?x=1">> \in Range(labels)

====
